---- MODULE Spec2Model ----
(***************************************************************************)
(* Model of scripts/compare_benchmarks.py: the benchmark regression gate.  *)
(*                                                                         *)
(* Numbers read from JSON are modelled as naturals (JSON integers).  The   *)
(* arithmetic of compare_metric is Python float arithmetic: IEEE-754       *)
(* binary64 with round-to-nearest-even after every operation.  It is       *)
(* modelled bit-exactly on sequences of 13-bit limbs, because TLC's      *)
(* integers are 32 bits wide and a binary64 significand has 53 bits.       *)
(* Strings are modelled as sequences of one-character strings.             *)
(***************************************************************************)
EXTENDS Integers, Sequences, FiniteSets, TLC

VARIABLES
    baselines,           \* the baseline table read from args.baselines
    fail_on_regression,  \* args.fail_on_regression
    pending,             \* result files of results_dir the loop of main has not reached
    analyses,            \* main's list of verdicts
    stdout,              \* what the process has printed
    report,              \* the report main obtained from generate_markdown_report
    pc,                  \* position of main: "loop", "report", "exit", "done"
    exit_code,           \* exit status of the process once pc = "done"
    call                 \* a direct call of one function: its arguments and its outcome

vars == <<baselines, fail_on_regression, pending, analyses, stdout, report, pc, exit_code, call>>

\* F(v) with v evaluated once (a local variable holding a computed value)
Bind(v, F(_)) == CHOOSE r \in {F(x) : x \in {v}} : TRUE

\* ------------------------------------------------------------------------
\* Naturals of arbitrary width: little-endian sequences of LimbBits-bit
\* limbs, no leading (most significant) zero limb; <<>> is 0.
\* ------------------------------------------------------------------------

LimbBits == 13

Base == 2 ^ LimbBits

RECURSIVE NatLimbs(_)
NatLimbs(n) == IF n = 0 THEN <<>> ELSE <<n % Base>> \o NatLimbs(n \div Base)

RECURSIVE Strip(_)
Strip(x) ==
    IF x = <<>> THEN <<>>
    ELSE IF x[Len(x)] = 0 THEN Strip(SubSeq(x, 1, Len(x) - 1))
    ELSE x

Limb(x, j) == IF j >= 1 /\ j <= Len(x) THEN x[j] ELSE 0

\* bit i (1 = least significant) of x
BitAt(x, i) ==
    IF i < 1 THEN 0
    ELSE (Limb(x, ((i - 1) \div LimbBits) + 1) \div (2 ^ ((i - 1) % LimbBits))) % 2

BitLen(x) ==
    IF x = <<>> THEN 0
    ELSE LimbBits * (Len(x) - 1)
         + (CHOOSE k \in 1..LimbBits : 2 ^ (k - 1) <= x[Len(x)] /\ x[Len(x)] < 2 ^ k)

\* x * 2^k
ShiftLeft(x, k) ==
    IF x = <<>> \/ k <= 0 THEN x
    ELSE LET q == k \div LimbBits
             r == k % LimbBits
         IN  Strip([j \in 1..(Len(x) + q + 1) |->
                     ((Limb(x, j - q) * (2 ^ r)) % Base)
                     + (Limb(x, j - q - 1) \div (2 ^ (LimbBits - r)))])

\* floor(x / 2^k)
ShiftRight(x, k) ==
    IF k <= 0 THEN x
    ELSE LET q == k \div LimbBits
             r == k % LimbBits
         IN  IF q >= Len(x) THEN <<>>
             ELSE Strip([j \in 1..(Len(x) - q) |->
                     (Limb(x, j + q) \div (2 ^ r))
                     + ((Limb(x, j + q + 1) * (2 ^ (LimbBits - r))) % Base)])

RECURSIVE AddFrom(_, _, _, _)
AddFrom(x, y, i, carry) ==
    IF i > Len(x) /\ i > Len(y)
    THEN (IF carry = 0 THEN <<>> ELSE <<carry>>)
    ELSE <<(Limb(x, i) + Limb(y, i) + carry) % Base>>
         \o AddFrom(x, y, i + 1, (Limb(x, i) + Limb(y, i) + carry) \div Base)

AddLimbs(x, y) == AddFrom(x, y, 1, 0)

\* x - y for x >= y
RECURSIVE SubFrom(_, _, _, _)
SubFrom(x, y, i, borrow) ==
    IF i > Len(x) THEN <<>>
    ELSE <<(Limb(x, i) - Limb(y, i) - borrow) % Base>>
         \o SubFrom(x, y, i + 1, IF Limb(x, i) - Limb(y, i) - borrow < 0 THEN 1 ELSE 0)

SubLimbs(x, y) == Strip(SubFrom(x, y, 1, 0))

\* -1, 0, 1 as x < y, x = y, x > y
RECURSIVE CmpFrom(_, _, _)
CmpFrom(x, y, i) ==
    IF i = 0 THEN 0
    ELSE IF x[i] > y[i] THEN 1
    ELSE IF x[i] < y[i] THEN -1
    ELSE CmpFrom(x, y, i - 1)

CmpLimbs(x, y) ==
    IF Len(x) > Len(y) THEN 1
    ELSE IF Len(x) < Len(y) THEN -1
    ELSE CmpFrom(x, y, Len(x))

\* x * b for a natural b < 2^17
RECURSIVE MulFrom(_, _, _, _)
MulFrom(x, b, i, carry) ==
    IF i > Len(x) THEN NatLimbs(carry)
    ELSE <<(x[i] * b + carry) % Base>> \o MulFrom(x, b, i + 1, (x[i] * b + carry) \div Base)

MulSmall(x, b) == Strip(MulFrom(x, b, 1, 0))

\* floor(x / d) and x mod d for a natural d, 0 < d < 2^17
RECURSIVE DivFrom(_, _, _, _, _)
DivFrom(x, d, i, r, q) ==
    IF i = 0 THEN [q |-> Strip(q), r |-> r]
    ELSE DivFrom(x, d, i - 1, (r * Base + x[i]) % d, <<(r * Base + x[i]) \div d>> \o q)

DivSmall(x, d) == DivFrom(x, d, Len(x), 0, <<>>)

\* ------------------------------------------------------------------------
\* binary64 values: [neg, m, e] is (-1)^neg * m * 2^e with m a natural of
\* at most Precision bits.  Exponent range and subnormals are not modelled
\* (the magnitudes of the model stay far inside the normal range).
\* ------------------------------------------------------------------------

Precision == 53

\* quotient bits a division computes below the binary point before rounding
DivScale == 72

\* round x * 2^e (plus a non-zero tail below it when sticky) to nearest, ties to even
RoundLimbs(x, e, sticky, neg) ==
    LET d == BitLen(x) - Precision
    IN  IF d <= 0 THEN [neg |-> neg, m |-> x, e |-> e]
        ELSE LET rest     == sticky \/ (\E i \in 1..(d - 1) : BitAt(x, i) = 1)
                 Up(kept) == BitAt(x, d) = 1 /\ (rest \/ BitAt(kept, 1) = 1)
                 Fit(m1)  == IF BitLen(m1) > Precision
                             THEN [neg |-> neg, m |-> ShiftRight(m1, 1), e |-> e + d + 1]
                             ELSE [neg |-> neg, m |-> m1, e |-> e + d]
             IN  Bind(ShiftRight(x, d),
                      LAMBDA kept : Bind(IF Up(kept) THEN AddLimbs(kept, <<1>>) ELSE kept, Fit))

RoundNearestEven(x, e, sticky, neg) == Bind(x, LAMBDA v : RoundLimbs(v, e, sticky, neg))

\* float(t) / float(d) for naturals t, d (Python's int / int)
FDivInt(t, d) ==
    Bind(DivSmall(ShiftLeft(NatLimbs(t), DivScale), d),
         LAMBDA qr : RoundNearestEven(qr.q, 0 - DivScale, qr.r # 0, FALSE))

\* float(b) * x for a natural b and a non-negative float x
FMulInt(b, x) == Bind(x, LAMBDA v : RoundNearestEven(MulSmall(v.m, b), v.e, FALSE, FALSE))

\* float(b) + s * x (s = 1 or -1) for a natural b and a non-negative float x
FAddAligned(b, x, s) ==
    LET e  == IF x.e < 0 THEN x.e ELSE 0
        B  == ShiftLeft(NatLimbs(b), 0 - e)
        X  == ShiftLeft(x.m, x.e - e)
    IN  IF s = 1 THEN RoundNearestEven(AddLimbs(B, X), e, FALSE, FALSE)
        ELSE IF CmpLimbs(B, X) >= 0 THEN RoundNearestEven(SubLimbs(B, X), e, FALSE, FALSE)
        ELSE RoundNearestEven(SubLimbs(X, B), e, FALSE, TRUE)

FAddInt(b, x, s) == Bind(x, LAMBDA v : FAddAligned(b, v, s))

\* sign of (a - x) for a natural a and a float x: Python compares int with float exactly
CmpAligned(a, x) ==
    IF x.neg /\ x.m # <<>> THEN 1
    ELSE LET e == IF x.e < 0 THEN x.e ELSE 0
         IN  CmpLimbs(ShiftLeft(NatLimbs(a), 0 - e), ShiftLeft(x.m, x.e - e))

CmpIntFloat(a, x) == Bind(x, LAMBDA v : CmpAligned(a, v))

\* ------------------------------------------------------------------------
\* compare_metric
\* ------------------------------------------------------------------------

\* mutation of compare_metric: the tolerance is not applied
compare_metric_without_tolerance(actual, baseline, tolerance_percent, comparison) ==
    IF comparison = "min" THEN actual >= baseline ELSE actual <= baseline

\* mutation of compare_metric: the comparisons of lines 27 and 30 are strict
compare_metric_strict(actual, baseline, tolerance_percent, comparison) ==
    LET tolerance == FMulInt(baseline, FDivInt(tolerance_percent, 100))
    IN  IF comparison = "min"
        THEN CmpIntFloat(actual, FAddInt(baseline, tolerance, -1)) > 0
        ELSE CmpIntFloat(actual, FAddInt(baseline, tolerance, 1)) < 0

\* mutation of compare_metric: the tolerance is a percentage of 100, not of the baseline
compare_metric_percent_of_hundred(actual, baseline, tolerance_percent, comparison) ==
    LET tolerance == FMulInt(100, FDivInt(tolerance_percent, 100))
    IN  IF comparison = "min"
        THEN CmpIntFloat(actual, FAddInt(baseline, tolerance, -1)) >= 0
        ELSE CmpIntFloat(actual, FAddInt(baseline, tolerance, 1)) <= 0

\* mutation of compare_metric: the tolerance is applied on the wrong side of the bound
compare_metric_tolerance_tightens(actual, baseline, tolerance_percent, comparison) ==
    LET tolerance == FMulInt(baseline, FDivInt(tolerance_percent, 100))
    IN  IF comparison = "min"
        THEN CmpIntFloat(actual, FAddInt(baseline, tolerance, 1)) >= 0
        ELSE CmpIntFloat(actual, FAddInt(baseline, tolerance, -1)) <= 0

compare_metric(actual, baseline, tolerance_percent, comparison) ==
    LET tolerance == FMulInt(baseline, FDivInt(tolerance_percent, 100))
    IN  IF comparison = "min"
        THEN CmpIntFloat(actual, FAddInt(baseline, tolerance, -1)) >= 0
        ELSE CmpIntFloat(actual, FAddInt(baseline, tolerance, 1)) <= 0

\* ------------------------------------------------------------------------
\* Strings: sequences of characters
\* ------------------------------------------------------------------------

UpperCase == <<"A", "B", "C", "D", "E", "F", "G", "H", "I", "J", "K", "L", "M",
               "N", "O", "P", "Q", "R", "S", "T", "U", "V", "W", "X", "Y", "Z">>

LowerCase == <<"a", "b", "c", "d", "e", "f", "g", "h", "i", "j", "k", "l", "m",
               "n", "o", "p", "q", "r", "s", "t", "u", "v", "w", "x", "y", "z">>

\* str.lower()
Lower(s) ==
    [i \in 1..Len(s) |->
        IF \E k \in 1..Len(UpperCase) : UpperCase[k] = s[i]
        THEN LowerCase[CHOOSE k \in 1..Len(UpperCase) : UpperCase[k] = s[i]]
        ELSE s[i]]

\* Python's "sub in s" for strings
Contains(sub, s) ==
    \E i \in 0..(Len(s) - Len(sub)) : SubSeq(s, i + 1, i + Len(sub)) = sub

\* ------------------------------------------------------------------------
\* analyze_test_results
\*
\* A result file is a function from the field names it holds to their
\* values; a baseline entry is a function from the bound names it holds to
\* numbers; the entries of one platform are a sequence of [key, entry] in
\* the order of the JSON object; the table maps platform names to those.
\* ------------------------------------------------------------------------

NoValue == [status |-> "none"]

\* The outcome of a call of analyze_test_results: the value it returns or the key of
\* the KeyError it raises, what it printed, and its locals os_name (after line 40) and
\* baseline_key (as the index of the entry, 0 for None)
Returned(v, printed, os, idx) ==
    [raised |-> FALSE, error |-> "", value |-> v, printed |-> printed, os |-> os,
     baseline_index |-> idx]

Raises(err, printed, os, idx) ==
    [raised |-> TRUE, error |-> err, value |-> NoValue, printed |-> printed, os |-> os,
     baseline_index |-> idx]

\* lines 46-50: index of the first key of os_baselines found in the lower-cased
\* test name, 0 when the loop ends without a break (baseline_key stays None)
\* mutation of FirstKeyIn: after a loop without a break the last key is used
FirstKeyIn_or_last(os_baselines, lowered) ==
    IF \E i \in 1..Len(os_baselines) : Contains(os_baselines[i].key, lowered)
    THEN CHOOSE i \in 1..Len(os_baselines) :
            /\ Contains(os_baselines[i].key, lowered)
            /\ \A j \in 1..(i - 1) : ~Contains(os_baselines[j].key, lowered)
    ELSE Len(os_baselines)

FirstKeyIn(os_baselines, lowered) ==
    IF \E i \in 1..Len(os_baselines) : Contains(os_baselines[i].key, lowered)
    THEN CHOOSE i \in 1..Len(os_baselines) :
            /\ Contains(os_baselines[i].key, lowered)
            /\ \A j \in 1..(i - 1) : ~Contains(os_baselines[j].key, lowered)
    ELSE 0

FindBaselineKey(os_baselines, test_name) ==
    Bind(Lower(test_name), LAMBDA lowered : FirstKeyIn(os_baselines, lowered))

\* an f-string of lines 71, 79, 87, 95: the metric, the measured value, the bound
Breach(label, actual, bound) == [label |-> label, actual |-> actual, bound |-> bound]

\* mutation of CheckBound: the "not" of lines 70, 78, 86, 94 is missing
CheckBound_without_not(acc, results, baseline, tolerance, bound, field, comparison, label, list) ==
    IF acc.raised \/ bound \notin DOMAIN baseline THEN acc
    ELSE IF field \notin DOMAIN results THEN [acc EXCEPT !.raised = TRUE, !.error = field]
    ELSE IF ~compare_metric(results[field], baseline[bound], tolerance, comparison) THEN acc
    ELSE IF list = "failures"
    THEN [acc EXCEPT !.failures = Append(@, Breach(label, results[field], baseline[bound]))]
    ELSE [acc EXCEPT !.warnings = Append(@, Breach(label, results[field], baseline[bound]))]

\* one "Check ..." block of lines 65-95
CheckBound(acc, results, baseline, tolerance, bound, field, comparison, label, list) ==
    IF acc.raised \/ bound \notin DOMAIN baseline THEN acc
    ELSE IF field \notin DOMAIN results THEN [acc EXCEPT !.raised = TRUE, !.error = field]
    ELSE IF compare_metric(results[field], baseline[bound], tolerance, comparison) THEN acc
    ELSE IF list = "failures"
    THEN [acc EXCEPT !.failures = Append(@, Breach(label, results[field], baseline[bound]))]
    ELSE [acc EXCEPT !.warnings = Append(@, Breach(label, results[field], baseline[bound]))]

DefaultTolerance == 10

\* mutation of RunChecks: a breach of the violation bound is appended to failures
RunChecks_violations_fail(results, baseline) ==
    LET tolerance == IF "tolerance_percent" \in DOMAIN baseline
                     THEN baseline["tolerance_percent"] ELSE DefaultTolerance
        a0 == [raised |-> FALSE, error |-> "", failures |-> <<>>, warnings |-> <<>>]
        Throughput(a) == CheckBound(a, results, baseline, tolerance, "min_throughput_msg_sec",
                                    "messages_per_second", "min", "Throughput", "failures")
        Memory(a)     == CheckBound(a, results, baseline, tolerance, "max_memory_mb",
                                    "peak_mb", "max", "Memory", "failures")
        Latency(a)    == CheckBound(a, results, baseline, tolerance, "max_latency_p99_us",
                                    "p99_us", "max", "P99 latency", "failures")
        Violations(a) == CheckBound(a, results, baseline, tolerance, "max_violations_percent",
                                    "violation_percentage", "max", "Latency violations",
                                    "failures")
    IN  Bind(Throughput(a0),
             LAMBDA a1 : Bind(Memory(a1), LAMBDA a2 : Bind(Latency(a2), Violations)))

\* mutation of RunChecks: an entry without tolerance_percent is checked with tolerance 0
RunChecks_default_zero(results, baseline) ==
    LET tolerance == IF "tolerance_percent" \in DOMAIN baseline
                     THEN baseline["tolerance_percent"] ELSE 0
        a0 == [raised |-> FALSE, error |-> "", failures |-> <<>>, warnings |-> <<>>]
        Throughput(a) == CheckBound(a, results, baseline, tolerance, "min_throughput_msg_sec",
                                    "messages_per_second", "min", "Throughput", "failures")
        Memory(a)     == CheckBound(a, results, baseline, tolerance, "max_memory_mb",
                                    "peak_mb", "max", "Memory", "failures")
        Latency(a)    == CheckBound(a, results, baseline, tolerance, "max_latency_p99_us",
                                    "p99_us", "max", "P99 latency", "failures")
        Violations(a) == CheckBound(a, results, baseline, tolerance, "max_violations_percent",
                                    "violation_percentage", "max", "Latency violations",
                                    "warnings")
    IN  Bind(Throughput(a0),
             LAMBDA a1 : Bind(Memory(a1), LAMBDA a2 : Bind(Latency(a2), Violations)))

\* lines 59-95
RunChecks(results, baseline) ==
    LET tolerance == IF "tolerance_percent" \in DOMAIN baseline
                     THEN baseline["tolerance_percent"] ELSE DefaultTolerance
        a0 == [raised |-> FALSE, error |-> "", failures |-> <<>>, warnings |-> <<>>]
        Throughput(a) == CheckBound(a, results, baseline, tolerance, "min_throughput_msg_sec",
                                    "messages_per_second", "min", "Throughput", "failures")
        Memory(a)     == CheckBound(a, results, baseline, tolerance, "max_memory_mb",
                                    "peak_mb", "max", "Memory", "failures")
        Latency(a)    == CheckBound(a, results, baseline, tolerance, "max_latency_p99_us",
                                    "p99_us", "max", "P99 latency", "failures")
        Violations(a) == CheckBound(a, results, baseline, tolerance, "max_violations_percent",
                                    "violation_percentage", "max", "Latency violations",
                                    "warnings")
    IN  Bind(Throughput(a0),
             LAMBDA a1 : Bind(Memory(a1), LAMBDA a2 : Bind(Latency(a2), Violations)))

\* the fields lines 112-115 read, in that order
SnapshotFields == <<"messages_per_second", "peak_mb", "p99_us", "error_rate">>

\* mutation of StatusOf: warnings are looked at before failures
StatusOf_warnings_first(failures, warnings) ==
    IF warnings # <<>> THEN "warning"
    ELSE IF failures # <<>> THEN "failed"
    ELSE "passed"

\* lines 97-103
StatusOf(failures, warnings) ==
    IF failures # <<>> THEN "failed"
    ELSE IF warnings # <<>> THEN "warning"
    ELSE "passed"

\* mutation of Verdict: the snapshot holds the p99 latency where the memory belongs
Verdict_memory_from_latency(results, os, acc) ==
    IF \E k \in 1..Len(SnapshotFields) : SnapshotFields[k] \notin DOMAIN results
    THEN [raised |-> TRUE,
          error  |-> SnapshotFields[CHOOSE k \in 1..Len(SnapshotFields) :
                        /\ SnapshotFields[k] \notin DOMAIN results
                        /\ \A j \in 1..(k - 1) : SnapshotFields[j] \in DOMAIN results],
          value  |-> NoValue]
    ELSE [raised |-> FALSE,
          error  |-> "",
          value  |-> [status    |-> StatusOf(acc.failures, acc.warnings),
                      test_name |-> results["test_name"],
                      os        |-> os,
                      failures  |-> acc.failures,
                      warnings  |-> acc.warnings,
                      metrics   |-> [throughput     |-> results["messages_per_second"],
                                     memory_mb      |-> results["p99_us"],
                                     p99_latency_us |-> results["p99_us"],
                                     error_rate     |-> results["error_rate"]]]]

\* lines 97-117, acc being the lists the checks have filled
Verdict(results, os, acc) ==
    IF \E k \in 1..Len(SnapshotFields) : SnapshotFields[k] \notin DOMAIN results
    THEN [raised |-> TRUE,
          error  |-> SnapshotFields[CHOOSE k \in 1..Len(SnapshotFields) :
                        /\ SnapshotFields[k] \notin DOMAIN results
                        /\ \A j \in 1..(k - 1) : SnapshotFields[j] \in DOMAIN results],
          value  |-> NoValue]
    ELSE [raised |-> FALSE,
          error  |-> "",
          value  |-> [status    |-> StatusOf(acc.failures, acc.warnings),
                      test_name |-> results["test_name"],
                      os        |-> os,
                      failures  |-> acc.failures,
                      warnings  |-> acc.warnings,
                      metrics   |-> [throughput     |-> results["messages_per_second"],
                                     memory_mb      |-> results["peak_mb"],
                                     p99_latency_us |-> results["p99_us"],
                                     error_rate     |-> results["error_rate"]]]]

\* lines 52-117, idx being the entry the loop of lines 46-50 stopped at
Evaluate(results, os, os_baselines, idx, printed) ==
    IF idx = 0 \/ os_baselines[idx].key = <<>>
    THEN Returned([status |-> "warning", message |-> results["test_name"], details |-> results],
                  printed, os, idx)
    ELSE Bind(RunChecks(results, os_baselines[idx].entry),
              LAMBDA acc :
                IF acc.raised THEN Raises(acc.error, printed, os, idx)
                ELSE Bind(Verdict(results, os, acc),
                          LAMBDA v : IF v.raised THEN Raises(v.error, printed, os, idx)
                                     ELSE Returned(v.value, printed, os, idx)))

\* the warning line 39 prints
FallbackWarning(os_name) == [line |-> "no baselines for OS, using linux", os |-> os_name]

\* mutation of NoBaselinesForOS: the platform is tested against a fixed set of names
NoBaselinesForOS_known_set(table, os_name) == os_name \notin {"linux", "macos", "windows"}

\* line 38
NoBaselinesForOS(table, os_name) == os_name \notin DOMAIN table

analyze_test_results(results, table, os_name) ==
    LET printed == IF NoBaselinesForOS(table, os_name)
                   THEN <<FallbackWarning(os_name)>>
                   ELSE <<>>
        os      == IF NoBaselinesForOS(table, os_name) THEN "linux" ELSE os_name
    IN  IF os \notin DOMAIN table THEN Raises(os, printed, os, 0)
        ELSE IF "test_name" \notin DOMAIN results THEN Raises("test_name", printed, os, 0)
        ELSE Bind(FindBaselineKey(table[os], results["test_name"]),
                  LAMBDA idx : Evaluate(results, os, table[os], idx, printed))

\* ------------------------------------------------------------------------
\* generate_markdown_report
\* ------------------------------------------------------------------------

CountStatus(list, status) == Cardinality({i \in 1..Len(list) : list[i].status = status})

\* mutation of Banner: only the first verdict of the list is looked at
Banner_first_only(list) ==
    IF list = <<>> THEN "PASSED"
    ELSE IF list[1].status = "failed" THEN "FAILED"
    ELSE IF list[1].status = "warning" THEN "PASSED WITH WARNINGS"
    ELSE "PASSED"

\* lines 129-134
Banner(list) ==
    IF CountStatus(list, "failed") > 0 THEN "FAILED"
    ELSE IF CountStatus(list, "warning") > 0 THEN "PASSED WITH WARNINGS"
    ELSE "PASSED"

\* the keys lines 145-153 subscript
SectionKeys == {"test_name", "os", "metrics"}

\* analysis.get(key): the list under key, or nothing
GetList(analysis, key) == IF key \in DOMAIN analysis THEN analysis[key] ELSE <<>>

\* mutation of Section: the icon is taken from the lists, warnings first
Section_icon_from_lists(analysis) ==
    [icon      |-> IF GetList(analysis, "warnings") # <<>> THEN "warning"
                   ELSE IF GetList(analysis, "failures") # <<>> THEN "cross" ELSE "check",
     test_name |-> analysis.test_name,
     os        |-> analysis.os,
     table     |-> <<analysis.metrics.throughput, analysis.metrics.memory_mb,
                     analysis.metrics.p99_latency_us, analysis.metrics.error_rate>>,
     failures  |-> GetList(analysis, "failures"),
     warnings  |-> GetList(analysis, "warnings")]

\* lines 144-166
Section(analysis) ==
    [icon      |-> IF analysis.status = "passed" THEN "check"
                   ELSE IF analysis.status = "warning" THEN "warning" ELSE "cross",
     test_name |-> analysis.test_name,
     os        |-> analysis.os,
     table     |-> <<analysis.metrics.throughput, analysis.metrics.memory_mb,
                     analysis.metrics.p99_latency_us, analysis.metrics.error_rate>>,
     failures  |-> GetList(analysis, "failures"),
     warnings  |-> GetList(analysis, "warnings")]

\* the value of a metrics table row and the digits its format prints after the point
Formatted(value, decimals) == [value |-> value, decimals |-> decimals]

\* the items lines 157-158 and 163-164 append for one list
ItemLines(kind, items) == [j \in 1..Len(items) |-> [kind |-> kind, item |-> items[j]]]

\* mutation of SectionLines: the warnings of a verdict are written before its failures
SectionLines_warnings_first(analysis) ==
    <<[kind |-> "section",
       icon |-> IF analysis.status = "passed" THEN "check"
                ELSE IF analysis.status = "warning" THEN "warning" ELSE "cross",
       test_name |-> analysis.test_name, os |-> analysis.os],
      [kind |-> "table head"],
      [kind |-> "metric", name |-> "Throughput", text |-> Formatted(analysis.metrics.throughput, 0)],
      [kind |-> "metric", name |-> "Memory", text |-> Formatted(analysis.metrics.memory_mb, 2)],
      [kind |-> "metric", name |-> "P99 Latency",
       text |-> Formatted(analysis.metrics.p99_latency_us, 2)],
      [kind |-> "metric", name |-> "Error Rate", text |-> Formatted(analysis.metrics.error_rate, 2)]>>
    \o (IF GetList(analysis, "warnings") # <<>>
        THEN <<[kind |-> "warnings head"]>> \o ItemLines("warning", analysis.warnings)
        ELSE <<>>)
    \o (IF GetList(analysis, "failures") # <<>>
        THEN <<[kind |-> "failures head"]>> \o ItemLines("failure", analysis.failures)
        ELSE <<>>)

\* lines 143-166: what one pass of the loop appends to the report
SectionLines(analysis) ==
    <<[kind |-> "section",
       icon |-> IF analysis.status = "passed" THEN "check"
                ELSE IF analysis.status = "warning" THEN "warning" ELSE "cross",
       test_name |-> analysis.test_name, os |-> analysis.os],
      [kind |-> "table head"],
      [kind |-> "metric", name |-> "Throughput", text |-> Formatted(analysis.metrics.throughput, 0)],
      [kind |-> "metric", name |-> "Memory", text |-> Formatted(analysis.metrics.memory_mb, 2)],
      [kind |-> "metric", name |-> "P99 Latency",
       text |-> Formatted(analysis.metrics.p99_latency_us, 2)],
      [kind |-> "metric", name |-> "Error Rate", text |-> Formatted(analysis.metrics.error_rate, 2)]>>
    \o (IF GetList(analysis, "failures") # <<>>
        THEN <<[kind |-> "failures head"]>> \o ItemLines("failure", analysis.failures)
        ELSE <<>>)
    \o (IF GetList(analysis, "warnings") # <<>>
        THEN <<[kind |-> "warnings head"]>> \o ItemLines("warning", analysis.warnings)
        ELSE <<>>)

RECURSIVE AllSectionLines(_, _)
\* the loop of lines 143-166 from verdict i on
AllSectionLines(list, i) ==
    IF i > Len(list) THEN <<>> ELSE SectionLines(list[i]) \o AllSectionLines(list, i + 1)

\* lines 122-141: the parts the report starts with
HeadLines(list) ==
    <<[kind |-> "title"],
      [kind |-> "banner", text |-> Banner(list)],
      [kind |-> "count", status |-> "passed", n |-> CountStatus(list, "passed")],
      [kind |-> "count", status |-> "warning", n |-> CountStatus(list, "warning")],
      [kind |-> "count", status |-> "failed", n |-> CountStatus(list, "failed")],
      [kind |-> "details head"]>>

NoReport == [banner |-> "none"]

generate_markdown_report(list) ==
    IF \E i \in 1..Len(list) : ~(SectionKeys \subseteq DOMAIN list[i])
    THEN [raised |-> TRUE, error |-> "KeyError", value |-> NoReport]
    ELSE [raised |-> FALSE, error |-> "",
          value |-> [banner   |-> Banner(list),
                     passed   |-> CountStatus(list, "passed"),
                     warnings |-> CountStatus(list, "warning"),
                     failed   |-> CountStatus(list, "failed"),
                     sections |-> [i \in 1..Len(list) |-> Section(list[i])],
                     lines    |-> HeadLines(list) \o AllSectionLines(list, 1)]]

\* ------------------------------------------------------------------------
\* The inputs of the model
\* ------------------------------------------------------------------------

NameLatencyStress ==
    <<"i", "p", "c", "_", "l", "a", "t", "e", "n", "c", "y", "_", "s", "t", "r", "e", "s", "s", "_", "t", "e", "s", "t", "_", "l", "i", "n", "u", "x">>

NameThroughput ==
    <<"I", "P", "C", "_", "T", "h", "r", "o", "u", "g", "h", "p", "u", "t", "_", "B", "e", "n", "c", "h">>

NameOther ==
    <<"f", "s", "_", "s", "c", "a", "n">>

KeyLatencyStress ==
    <<"l", "a", "t", "e", "n", "c", "y", "_", "s", "t", "r", "e", "s", "s">>

KeyIpc ==
    <<"i", "p", "c">>

KeyIpcUpper ==
    <<"I", "P", "C">>

KeyThroughput ==
    <<"t", "h", "r", "o", "u", "g", "h", "p", "u", "t">>

KeyIpcLatency ==
    <<"i", "p", "c", "_", "l", "a", "t", "e", "n", "c", "y">>

PathLinux ==
    <<"o", "u", "t", "/", "r", "_", "l", "i", "n", "u", "x", ".", "j", "s", "o", "n">>

PathMacos ==
    <<"o", "u", "t", "/", "r", "_", "m", "a", "c", "o", "s", ".", "j", "s", "o", "n">>

PathDarwin ==
    <<"o", "u", "t", "/", "r", "_", "d", "a", "r", "w", "i", "n", ".", "j", "s", "o", "n">>

PathWindows ==
    <<"o", "u", "t", "/", "r", "_", "w", "i", "n", "d", "o", "w", "s", ".", "j", "s", "o", "n">>

PathWin ==
    <<"o", "u", "t", "/", "r", "_", "w", "i", "n", ".", "j", "s", "o", "n">>

PathMacosPartial ==
    <<"o", "u", "t", "/", "m", "a", "c", "o", "s", "_", "2", ".", "j", "s", "o", "n">>

PathPlain ==
    <<"o", "u", "t", "/", "r", "1", ".", "j", "s", "o", "n">>

StrLinux ==
    <<"l", "i", "n", "u", "x">>

StrMacos ==
    <<"m", "a", "c", "o", "s">>

StrDarwin ==
    <<"d", "a", "r", "w", "i", "n">>

StrWindows ==
    <<"w", "i", "n", "d", "o", "w", "s">>

StrWin ==
    <<"w", "i", "n">>

Record(name, thr, mem, p99, viol, err) ==
    [test_name |-> name, messages_per_second |-> thr, peak_mb |-> mem, p99_us |-> p99,
     violation_percentage |-> viol, error_rate |-> err]

Without(r, f) == [k \in (DOMAIN r) \ {f} |-> r[k]]

EntryThroughput == [min_throughput_msg_sec |-> 100000, tolerance_percent |-> 10]

EntryMemory == [max_memory_mb |-> 50, max_violations_percent |-> 1, tolerance_percent |-> 5]

EntryLatency == [max_latency_p99_us |-> 10]

EntryAll ==
    [min_throughput_msg_sec |-> 50, max_memory_mb |-> 50, max_latency_p99_us |-> 10,
     max_violations_percent |-> 1, tolerance_percent |-> 58]

EntryNone == [tolerance_percent |-> 10]

TableMain ==
    [linux   |-> <<[key |-> KeyThroughput, entry |-> EntryThroughput],
                   [key |-> KeyLatencyStress, entry |-> EntryLatency],
                   [key |-> KeyIpc, entry |-> EntryMemory]>>,
     macos   |-> <<[key |-> KeyIpc, entry |-> EntryAll]>>,
     windows |-> <<[key |-> KeyThroughput, entry |-> EntryThroughput]>>]

TableNoLinux == [macos |-> <<[key |-> KeyLatencyStress, entry |-> EntryLatency]>>]

TableUpper ==
    [linux |-> <<[key |-> KeyIpcUpper, entry |-> EntryThroughput],
                 [key |-> KeyIpc, entry |-> EntryMemory]>>]

TableOrder ==
    [linux   |-> <<[key |-> KeyIpc, entry |-> EntryMemory],
                   [key |-> KeyIpcLatency, entry |-> EntryLatency]>>,
     windows |-> <<[key |-> <<>>, entry |-> EntryThroughput],
                   [key |-> KeyIpc, entry |-> EntryMemory]>>,
     freebsd |-> <<[key |-> KeyIpc, entry |-> EntryAll]>>]

TableDegenerate == [linux |-> <<[key |-> KeyIpc, entry |-> EntryNone]>>]

Tables == {TableMain, TableNoLinux, TableUpper, TableOrder, TableDegenerate}

Platforms == {"linux", "macos", "windows", "freebsd"}

Names == {NameLatencyStress, NameThroughput, NameOther}

\* measured values: throughput, peak memory, p99 latency, violation rate, error rate
Profiles ==
    {<<91000, 40, 9, 0, 0>>, <<89000, 53, 12, 2, 1>>, <<21, 79, 11, 1, 0>>, <<10, 90, 20, 5, 3>>}

WellFormed == {Record(n, p[1], p[2], p[3], p[4], p[5]) : n \in Names, p \in Profiles}

Malformed ==
    {Without(Record(NameLatencyStress, 89000, 53, 12, 2, 1), "peak_mb"),
     Without(Record(NameThroughput, 89000, 53, 12, 2, 1), "error_rate"),
     Without(Record(NameThroughput, 91000, 40, 9, 0, 0), "test_name")}

\* the result files a results directory may hold
ResultFiles ==
    {[path |-> PathLinux,   results |-> Record(NameThroughput, 91000, 40, 9, 0, 0)],
     [path |-> PathMacos,   results |-> Record(NameLatencyStress, 21, 79, 11, 1, 0)],
     [path |-> PathDarwin,  results |-> Record(NameThroughput, 89000, 53, 12, 2, 1)],
     [path |-> PathWindows, results |-> Record(NameOther, 91000, 40, 9, 0, 0)],
     [path |-> PathWin,     results |-> Record(NameThroughput, 10, 90, 20, 5, 3)],
     [path |-> PathPlain,   results |-> Without(Record(NameLatencyStress, 89000, 53, 12, 2, 1),
                                                "peak_mb")],
     [path |-> PathMacosPartial,
      results |-> Without(Record(NameLatencyStress, 10, 90, 20, 5, 3), "peak_mb")]}

MaxFiles == 2

MaxActual == 60

CmpActuals == (0..MaxActual) \cup {89999, 90000, 90500, 91000, 110000, 110001}

CmpBaselines == {0, 50, 100000}

CmpTolerances == {0, 5, 10, 58}

\* ------------------------------------------------------------------------
\* main
\* ------------------------------------------------------------------------

\* mutation of OSOfLowered: the windows test comes before the macos test
OSOfLowered_windows_first(p) ==
    IF Contains(StrLinux, p) THEN "linux"
    ELSE IF Contains(StrWindows, p) \/ Contains(StrWin, p) THEN "windows"
    ELSE IF Contains(StrMacos, p) \/ Contains(StrDarwin, p) THEN "macos"
    ELSE "linux"

\* lines 187-194
OSOfLowered(p) ==
    IF Contains(StrLinux, p) THEN "linux"
    ELSE IF Contains(StrMacos, p) \/ Contains(StrDarwin, p) THEN "macos"
    ELSE IF Contains(StrWindows, p) \/ Contains(StrWin, p) THEN "windows"
    ELSE "linux"

DetectOS(path) == Bind(Lower(path), OSOfLowered)

NoCall == [fn |-> "none"]

Init ==
    /\ baselines \in Tables
    /\ fail_on_regression \in BOOLEAN
    /\ pending \in {S \in SUBSET ResultFiles : Cardinality(S) <= MaxFiles}
    /\ analyses = <<>>
    /\ stdout = <<>>
    /\ report = NoReport
    /\ pc = "loop"
    /\ exit_code = -1
    /\ call = NoCall

\* mutation of ProcessFile: a run that raises is skipped without a word
ProcessFile_silent(f) ==
    /\ pc = "loop"
    /\ f \in pending
    /\ \E out \in {analyze_test_results(f.results, baselines, DetectOS(f.path))} :
           /\ analyses' = IF out.raised THEN analyses ELSE Append(analyses, out.value)
           /\ stdout' = stdout \o out.printed \o
                  (IF out.raised
                   THEN <<>>
                   ELSE <<[line |-> "result", status |-> out.value.status,
                           failures |-> GetList(out.value, "failures"),
                           warnings |-> GetList(out.value, "warnings")]>>)
    /\ pending' = pending \ {f}
    /\ UNCHANGED <<baselines, fail_on_regression, report, pc, exit_code, call>>

\* mutation of ProcessFile: a run that raises is collected as a failed verdict
ProcessFile_collects_abandoned(f) ==
    /\ pc = "loop"
    /\ f \in pending
    /\ \E out \in {analyze_test_results(f.results, baselines, DetectOS(f.path))} :
           /\ analyses' = IF out.raised
                          THEN Append(analyses, [status |-> "failed", failures |-> <<>>,
                                                 warnings |-> <<>>])
                          ELSE Append(analyses, out.value)
           /\ stdout' = stdout \o out.printed \o
                  (IF out.raised
                   THEN <<[line |-> "Error processing", path |-> f.path, error |-> out.error]>>
                   ELSE <<[line |-> "result", status |-> out.value.status,
                           failures |-> GetList(out.value, "failures"),
                           warnings |-> GetList(out.value, "warnings")]>>)
    /\ pending' = pending \ {f}
    /\ UNCHANGED <<baselines, fail_on_regression, report, pc, exit_code, call>>

\* one iteration of the loop of lines 185-214
ProcessFile(f) ==
    /\ pc = "loop"
    /\ f \in pending
    /\ \E out \in {analyze_test_results(f.results, baselines, DetectOS(f.path))} :
           /\ analyses' = IF out.raised THEN analyses ELSE Append(analyses, out.value)
           /\ stdout' = stdout \o out.printed \o
                  (IF out.raised
                   THEN <<[line |-> "Error processing", path |-> f.path, error |-> out.error]>>
                   ELSE <<[line |-> "result", status |-> out.value.status,
                           failures |-> GetList(out.value, "failures"),
                           warnings |-> GetList(out.value, "warnings")]>>)
    /\ pending' = pending \ {f}
    /\ UNCHANGED <<baselines, fail_on_regression, report, pc, exit_code, call>>

\* lines 216-224; an exception leaving generate_markdown_report is caught nowhere:
\* the interpreter prints the traceback and the process ends with status 1
GenerateReport ==
    /\ pc = "loop"
    /\ pending = {}
    /\ \E out \in {generate_markdown_report(analyses)} :
           IF out.raised
           THEN /\ report' = NoReport
                /\ stdout' = Append(stdout, [line |-> "Traceback", error |-> out.error])
                /\ pc' = "done"
                /\ exit_code' = 1
           ELSE /\ report' = out.value
                /\ stdout' = Append(stdout, [line |-> "report"])
                /\ pc' = "exit"
                /\ exit_code' = exit_code
    /\ UNCHANGED <<baselines, fail_on_regression, pending, analyses, call>>

\* lines 226-232: the status main exits with
ExitCode(list, flag) == IF flag /\ CountStatus(list, "failed") > 0 THEN 1 ELSE 0

\* lines 226-232
Exit ==
    /\ pc = "exit"
    /\ exit_code' = ExitCode(analyses, fail_on_regression)
    /\ pc' = "done"
    /\ UNCHANGED <<baselines, fail_on_regression, pending, analyses, stdout, report, call>>

Next ==
    \/ \E f \in pending : ProcessFile(f)
    \/ GenerateReport
    \/ Exit

Spec == Init /\ [][Next]_vars

\* main runs to its end: the loop over a finite directory listing, the report and
\* the exit are each taken as soon as they are enabled
ConsumesFile == pc = "loop" /\ pending # {} /\ pending' \in SUBSET pending

FairSpec ==
    Init /\ [][Next]_vars /\ WF_pending(ConsumesFile) /\ WF_vars(GenerateReport) /\ WF_vars(Exit)

\* ------------------------------------------------------------------------
\* Direct calls of compare_metric and of analyze_test_results
\* ------------------------------------------------------------------------

Idle ==
    /\ baselines = TableMain
    /\ fail_on_regression = FALSE
    /\ pending = {}
    /\ analyses = <<>>
    /\ stdout = <<>>
    /\ report = NoReport
    /\ pc = "call"
    /\ exit_code = -1

InitCmp ==
    /\ Idle
    /\ call \in {[fn |-> "compare_metric", actual |-> a, baseline |-> b,
                  tolerance_percent |-> t, comparison |-> c, done |-> FALSE, result |-> FALSE] :
                 a \in CmpActuals, b \in CmpBaselines, t \in CmpTolerances, c \in {"min", "max"}}

CallCompare ==
    /\ call.fn = "compare_metric"
    /\ ~call.done
    /\ call' = [call EXCEPT !.done = TRUE,
                            !.result = compare_metric(call.actual, call.baseline,
                                                      call.tolerance_percent, call.comparison)]
    /\ UNCHANGED <<baselines, fail_on_regression, pending, analyses, stdout, report, pc, exit_code>>

SpecCmp == InitCmp /\ [][CallCompare]_vars

InitAnalyze ==
    /\ Idle
    /\ call \in {[fn |-> "analyze_test_results", results |-> r, table |-> t, os_name |-> o,
                  done |-> FALSE, out |-> Raises("", <<>>, "", 0)] :
                 r \in WellFormed \cup Malformed, t \in Tables, o \in Platforms}

CallAnalyze ==
    /\ call.fn = "analyze_test_results"
    /\ ~call.done
    /\ call' = [call EXCEPT !.done = TRUE,
                            !.out = analyze_test_results(call.results, call.table, call.os_name)]
    /\ UNCHANGED <<baselines, fail_on_regression, pending, analyses, stdout, report, pc, exit_code>>

SpecAnalyze == InitAnalyze /\ [][CallAnalyze]_vars

\* lines 216-232 as a function of the verdicts the loop collected: the report and the
\* status the process ends with (1 when generate_markdown_report raises)
Finish(list, flag) ==
    Bind(generate_markdown_report(list),
         LAMBDA out : [raised    |-> out.raised,
                       report    |-> out.value,
                       exit_code |-> IF out.raised THEN 1 ELSE ExitCode(list, flag)])

\* verdicts analyze_test_results returns: passed, warning, failed, no baseline
SampleVerdicts ==
    {analyze_test_results(Record(NameThroughput, 91000, 40, 9, 0, 0), TableMain, "linux").value,
     analyze_test_results(Record(NameThroughput, 89000, 53, 12, 2, 1), TableMain, "macos").value,
     analyze_test_results(Record(NameThroughput, 10, 90, 20, 5, 3), TableMain, "linux").value,
     analyze_test_results(Record(NameOther, 91000, 40, 9, 0, 0), TableMain, "windows").value}

MaxVerdicts == 3

\* the orders the files of a results directory may be globbed in (line 185)
Orderings(list) ==
    LET n == Len(list)
    IN  {[i \in 1..n |-> list[p[i]]] :
            p \in {q \in [1..n -> 1..n] : \A i, j \in 1..n : q[i] = q[j] => i = j}}

InitAggregate ==
    /\ Idle
    /\ \E n \in 0..MaxVerdicts : \E list \in [1..n -> SampleVerdicts] :
          call \in {[fn |-> "aggregate", list |-> list, permuted |-> perm, flag |-> flag,
                     done |-> FALSE, out |-> Finish(<<>>, FALSE),
                     out_permuted |-> Finish(<<>>, FALSE)] :
                    perm \in Orderings(list), flag \in BOOLEAN}

CallAggregate ==
    /\ call.fn = "aggregate"
    /\ ~call.done
    /\ call' = [call EXCEPT !.done = TRUE,
                            !.out = Finish(call.list, call.flag),
                            !.out_permuted = Finish(call.permuted, call.flag)]
    /\ UNCHANGED <<baselines, fail_on_regression, pending, analyses, stdout, report, pc, exit_code>>

SpecAggregate == InitAggregate /\ [][CallAggregate]_vars

\* mutation of Resolve: a repeated resolution reports no match
Resolve_forgets(test_name, table, os_name, earlier) ==
    LET os == IF NoBaselinesForOS(table, os_name) THEN "linux" ELSE os_name
    IN  IF os \notin DOMAIN table THEN [raised |-> TRUE, os |-> os, index |-> 0]
        ELSE [raised |-> FALSE, os |-> os,
              index |-> IF earlier # <<>> THEN 0 ELSE FindBaselineKey(table[os], test_name)]

\* lines 36-50: the platform and the entry a run is resolved to (index 0: no key
\* matches).  earlier holds the resolutions the process made before this one: the
\* table is loaded anew by every call and nothing an earlier call left is read
Resolve(test_name, table, os_name, earlier) ==
    LET os == IF NoBaselinesForOS(table, os_name) THEN "linux" ELSE os_name
    IN  IF os \notin DOMAIN table THEN [raised |-> TRUE, os |-> os, index |-> 0]
        ELSE [raised |-> FALSE, os |-> os, index |-> FindBaselineKey(table[os], test_name)]

MaxResolutions == 2

InitResolve ==
    /\ Idle
    /\ call \in {[fn |-> "resolve", test_name |-> n, table |-> t, os_name |-> o,
                  resolutions |-> <<>>] :
                 n \in Names, t \in Tables, o \in Platforms}

CallResolve ==
    /\ call.fn = "resolve"
    /\ Len(call.resolutions) < MaxResolutions
    /\ \E out \in {Resolve(call.test_name, call.table, call.os_name, call.resolutions)} :
          call' = [call EXCEPT !.resolutions = Append(@, out)]
    /\ UNCHANGED <<baselines, fail_on_regression, pending, analyses, stdout, report, pc, exit_code>>

SpecResolve == InitResolve /\ [][CallResolve]_vars

\* the words a file name is put together from
PathWords ==
    {<<>>, <<"r">>, StrLinux, StrMacos, StrDarwin, StrWindows, StrWin,
     <<"L", "i", "n", "u", "x">>}

\* the paths results_dir.glob('*.json') may yield (line 185)
SamplePaths ==
    {<<"o", "u", "t", "/">> \o a \o <<"_">> \o b \o <<".", "j", "s", "o", "n">> :
        a \in PathWords, b \in PathWords}

InitDetect ==
    /\ Idle
    /\ call \in {[fn |-> "detect_os", path |-> p, done |-> FALSE, os_name |-> "linux"] :
                 p \in SamplePaths}

\* lines 187-194 for one result file
CallDetect ==
    /\ call.fn = "detect_os"
    /\ ~call.done
    /\ call' = [call EXCEPT !.done = TRUE, !.os_name = DetectOS(call.path)]
    /\ UNCHANGED <<baselines, fail_on_regression, pending, analyses, stdout, report, pc, exit_code>>

SpecDetect == InitDetect /\ [][CallDetect]_vars

\* ------------------------------------------------------------------------
\* tools/parse_nuclear_metrics.py
\*
\* A log line is a sequence of tokens: a label ("p99:"), the text of a number (a
\* sequence of the characters 0-9 and "."), a unit ("us"; the micro sign is written u)
\* or a key; sp tells whether white space precedes the token.  A parsed number is held
\* in tenths.
\* ------------------------------------------------------------------------

Label(v) == [t |-> "label", v |-> v, sp |-> TRUE]

Number(text, sp) == [t |-> "num", v |-> text, sp |-> sp]

Unit(v, sp) == [t |-> "unit", v |-> v, sp |-> sp]

Key(v) == [t |-> "key", v |-> v, sp |-> TRUE]

\* str.lower() of the labels and units the sample lines are written with (re.I)
LowerWord(v) ==
    IF v = "P99:" THEN "p99:"
    ELSE IF v = "Throughput:" THEN "throughput:"
    ELSE IF v = "Peak memory:" THEN "peak memory:"
    ELSE IF v = "Max latency:" THEN "max latency:"
    ELSE IF v = "M msg/sec" THEN "m msg/sec"
    ELSE IF v = "MB" THEN "mb"
    ELSE v

Digits == <<"0", "1", "2", "3", "4", "5", "6", "7", "8", "9">>

DigitValue(c) == (CHOOSE k \in 1..Len(Digits) : Digits[k] = c) - 1

RECURSIVE IntOf(_, _)
\* int() of a sequence of digits, acc being the value of those read so far
IntOf(text, acc) ==
    IF text = <<>> THEN acc ELSE IntOf(Tail(text), 10 * acc + DigitValue(Head(text)))

\* float(text) for a text the class [0-9.]+ matched: ValueError unless it holds at most
\* one point and at least one digit; the value is in tenths (the sample texts have at
\* most one digit after the point)
ParseFloat(text) ==
    LET points == {i \in 1..Len(text) : text[i] = "."}
    IN  IF Cardinality(points) > 1 \/ Cardinality(points) = Len(text)
        THEN [ok |-> FALSE, value |-> 0]
        ELSE IF points = {}
        THEN [ok |-> TRUE, value |-> 10 * IntOf(text, 0)]
        ELSE LET dot == CHOOSE i \in points : TRUE
             IN  [ok |-> TRUE,
                  value |-> 10 * IntOf(SubSeq(text, 1, dot - 1), 0)
                            + IntOf(SubSeq(text, dot + 1, Len(text)), 0)]

\* PATTERNS, lines 7-20, in order.  tight: no white space may stand between the number
\* and the unit; whole: the number class is [0-9]+; cased: the pattern has no re.I;
\* rule: what the handler does with the accumulator; scale: the factor of line 8
PATTERNS ==
    <<[label |-> "throughput:", unit |-> "m msg/sec", tight |-> TRUE, whole |-> FALSE,
       cased |-> FALSE, rule |-> "update", key |-> "throughput_msgs_per_sec", scale |-> 1000000],
      [label |-> "bandwidth:", unit |-> "mb/sec", tight |-> FALSE, whole |-> FALSE,
       cased |-> FALSE, rule |-> "update", key |-> "bandwidth_mb_per_sec", scale |-> 1],
      [label |-> "latency percentiles:", unit |-> "", tight |-> FALSE, whole |-> FALSE,
       cased |-> FALSE, rule |-> "none", key |-> "", scale |-> 1],
      [label |-> "p50:", unit |-> "us", tight |-> FALSE, whole |-> FALSE,
       cased |-> FALSE, rule |-> "setdefault", key |-> "latency_p50_us", scale |-> 1],
      [label |-> "p99:", unit |-> "us", tight |-> FALSE, whole |-> FALSE,
       cased |-> FALSE, rule |-> "setdefault", key |-> "latency_p99_us", scale |-> 1],
      [label |-> "p99.9:", unit |-> "us", tight |-> FALSE, whole |-> FALSE,
       cased |-> FALSE, rule |-> "setdefault", key |-> "latency_p999_us", scale |-> 1],
      [label |-> "max latency:", unit |-> "us", tight |-> TRUE, whole |-> FALSE,
       cased |-> FALSE, rule |-> "update", key |-> "max_latency_us", scale |-> 1],
      [label |-> "peak memory:", unit |-> "mb", tight |-> FALSE, whole |-> FALSE,
       cased |-> FALSE, rule |-> "update", key |-> "peak_memory_mb", scale |-> 1],
      [label |-> "memory growth", unit |-> "kb", tight |-> TRUE, whole |-> FALSE,
       cased |-> FALSE, rule |-> "update", key |-> "memory_growth_kb", scale |-> 1],
      [label |-> "final memory growth:", unit |-> "kb", tight |-> FALSE, whole |-> TRUE,
       cased |-> FALSE, rule |-> "update", key |-> "final_memory_growth_kb", scale |-> 1],
      [label |-> "RESULT", unit |-> "", tight |-> FALSE, whole |-> FALSE,
       cased |-> TRUE, rule |-> "update", key |-> "", scale |-> 1]>>

\* the label of pattern rx stands at position i of the line
LabelAt(rx, line, i) ==
    /\ line[i].t = "label"
    /\ IF rx.cased THEN line[i].v = rx.label ELSE LowerWord(line[i].v) = rx.label

\* pattern rx matches the line from position i on
MatchesAt(rx, line, i) ==
    /\ LabelAt(rx, line, i)
    /\ \/ rx.rule = "none" /\ i = Len(line)
       \/ /\ rx.rule # "none"
          /\ rx.cased
          /\ i + 2 <= Len(line)
          /\ line[i + 1].t = "key"
          /\ line[i + 2].t = "num" /\ ~line[i + 2].sp
       \/ /\ rx.rule # "none"
          /\ ~rx.cased
          /\ i + 2 <= Len(line)
          /\ line[i + 1].t = "num"
          /\ rx.whole => \A k \in 1..Len(line[i + 1].v) : line[i + 1].v[k] # "."
          /\ line[i + 2].t = "unit" /\ LowerWord(line[i + 2].v) = rx.unit
          /\ rx.tight => ~line[i + 2].sp

NoMatch == [found |-> FALSE]

\* rx.search(line), line 28: the leftmost match, with the groups it captured
Search(rx, line) ==
    IF \E i \in 1..Len(line) : MatchesAt(rx, line, i)
    THEN LET i == CHOOSE k \in 1..Len(line) :
                      MatchesAt(rx, line, k) /\ \A j \in 1..(k - 1) : ~MatchesAt(rx, line, j)
         IN  IF rx.rule = "none" THEN [found |-> TRUE, key |-> "", text |-> <<>>]
             ELSE IF rx.cased
             THEN [found |-> TRUE, key |-> line[i + 1].v, text |-> line[i + 2].v]
             ELSE [found |-> TRUE, key |-> rx.key, text |-> line[i + 1].v]
    ELSE NoMatch

\* acc.update({key: value})
Update(acc, key, value) ==
    [k \in DOMAIN acc \cup {key} |-> IF k = key THEN value ELSE acc[k]]

\* acc.setdefault(key, value)
SetDefault(acc, key, value) == IF key \in DOMAIN acc THEN acc ELSE Update(acc, key, value)

\* mutation of Handle: the percentile handlers overwrite as the others do
Handle_always_updates(rx, m, acc) ==
    IF rx.rule = "none" THEN acc
    ELSE LET x == ParseFloat(m.text)
         IN  IF ~x.ok THEN acc
             ELSE Update(acc, m.key, x.value * rx.scale)

\* lines 30-33: fn(m, acc) inside try / except Exception: pass
Handle(rx, m, acc) ==
    IF rx.rule = "none" THEN acc
    ELSE LET x == ParseFloat(m.text)
         IN  IF ~x.ok THEN acc
             ELSE IF rx.rule = "setdefault" THEN SetDefault(acc, m.key, x.value * rx.scale)
             ELSE Update(acc, m.key, x.value * rx.scale)

RECURSIVE ApplyPatterns(_, _, _)
\* lines 27-33 from pattern k on
ApplyPatterns(line, acc, k) ==
    IF k > Len(PATTERNS) THEN acc
    ELSE Bind(Search(PATTERNS[k], line),
              LAMBDA m : ApplyPatterns(line,
                                       IF m.found THEN Handle(PATTERNS[k], m, acc) ELSE acc,
                                       k + 1))

\* the log lines of the model; the comment gives the text each stands for
SampleLines ==
    {\* "Throughput: 1.5M msg/sec"
     <<Label("Throughput:"), Number(<<"1", ".", "5">>, TRUE), Unit("M msg/sec", FALSE)>>,
     \* "p99: 5 us"
     <<Label("p99:"), Number(<<"5">>, TRUE), Unit("us", TRUE)>>,
     \* "P99: 12us"
     <<Label("P99:"), Number(<<"1", "2">>, TRUE), Unit("us", FALSE)>>,
     \* "p99: 1.2.3 us": float() raises ValueError
     <<Label("p99:"), Number(<<"1", ".", "2", ".", "3">>, TRUE), Unit("us", TRUE)>>,
     \* "p50: 2.5 us p99: 12 us"
     <<Label("p50:"), Number(<<"2", ".", "5">>, TRUE), Unit("us", TRUE),
       Label("p99:"), Number(<<"1", "2">>, TRUE), Unit("us", TRUE)>>,
     \* "Max latency: 5 us": the pattern allows no space before the unit
     <<Label("Max latency:"), Number(<<"5">>, TRUE), Unit("us", TRUE)>>,
     \* "Peak memory: 12 MB"
     <<Label("Peak memory:"), Number(<<"1", "2">>, TRUE), Unit("MB", TRUE)>>,
     \* "Peak memory: 5MB"
     <<Label("Peak memory:"), Number(<<"5">>, TRUE), Unit("MB", FALSE)>>,
     \* "RESULT latency_p99_us=7"
     <<Label("RESULT"), Key("latency_p99_us"), Number(<<"7">>, FALSE)>>}

MaxLines == 3

InitParse ==
    /\ Idle
    /\ \E n \in 0..MaxLines :
          call \in {[fn |-> "parse_metrics", stream |-> st, i |-> 0, acc |-> <<>>] :
                    st \in [1..n -> SampleLines]}

\* one pass of the loop of lines 25-33
ParseLine ==
    /\ call.fn = "parse_metrics"
    /\ call.i < Len(call.stream)
    /\ \E out \in {ApplyPatterns(call.stream[call.i + 1], call.acc, 1)} :
          call' = [call EXCEPT !.i = @ + 1, !.acc = out]
    /\ UNCHANGED <<baselines, fail_on_regression, pending, analyses, stdout, report, pc, exit_code>>

SpecParse == InitParse /\ [][ParseLine]_vars

\* ------------------------------------------------------------------------
\* Claims
\* ------------------------------------------------------------------------

IsCompareCall == call.fn = "compare_metric" /\ call.done

IsAnalyzeCall == call.fn = "analyze_test_results" /\ call.done

\* the call returned the verdict of a matched baseline entry
HasVerdict == IsAnalyzeCall /\ ~call.out.raised /\ "failures" \in DOMAIN call.out.value

\* the baseline entry the call evaluated the run against
MatchedEntry == call.table[call.out.os][call.out.baseline_index].entry

\* C1: compare_metric returns true exactly when actual >= bound - bound * t / 100
\* (direction min) or actual <= bound + bound * t / 100 (direction max), in exact
\* arithmetic (both sides multiplied by 100).
C1_ComparatorContract ==
    IsCompareCall =>
        call.result =
            (IF call.comparison = "min"
             THEN 100 * call.actual >= 100 * call.baseline - call.baseline * call.tolerance_percent
             ELSE 100 * call.actual <= 100 * call.baseline + call.baseline * call.tolerance_percent)

\* the run of scenario A: entry {min_throughput: 100000, tolerance_percent: 10},
\* measured throughput 91000
ScenarioA ==
    /\ HasVerdict
    /\ MatchedEntry = EntryThroughput
    /\ call.results["messages_per_second"] = 91000

\* C2 as stated: scenario A records a throughput failure and has status failed.
C2_ScenarioAFails ==
    ScenarioA =>
        /\ call.out.value.status = "failed"
        /\ \E i \in 1..Len(call.out.value.failures) :
              call.out.value.failures[i].label = "Throughput"

\* C2 as amended: scenario A records no failure and has status passed
\* (91000 is not below 100000 - 10% = 90000).
C2_ScenarioAPasses ==
    ScenarioA =>
        /\ call.out.value.status = "passed"
        /\ call.out.value.failures = <<>>
        /\ call.out.value.warnings = <<>>

C2_Witness == ScenarioA

\* no key of the resolved platform is a substring of the lower-cased test name
NoKeyMatches ==
    /\ IsAnalyzeCall
    /\ call.out.os \in DOMAIN call.table
    /\ "test_name" \in DOMAIN call.results
    /\ \A i \in 1..Len(call.table[call.out.os]) :
          ~Contains(call.table[call.out.os][i].key, Lower(call.results["test_name"]))

IsUnmatched(a) == "message" \in DOMAIN a

\* C4: once main is done the banner is FAILED if a verdict is failed, else PASSED WITH
\* WARNINGS if a verdict of a matched run is warning, else PASSED: unmatched runs do
\* not change it.
C4_OverallIgnoresUnmatched ==
    pc = "done" =>
        report.banner =
            (IF \E i \in 1..Len(analyses) : analyses[i].status = "failed" THEN "FAILED"
             ELSE IF \E i \in 1..Len(analyses) :
                        ~IsUnmatched(analyses[i]) /\ analyses[i].status = "warning"
             THEN "PASSED WITH WARNINGS"
             ELSE "PASSED")

\* C5: the exit code is 1 exactly when enforcement is on and a verdict is failed,
\* and 0 otherwise.
C5_ExitCodeIffEnforcedFailure ==
    pc = "done" =>
        exit_code = (IF fail_on_regression /\ (\E i \in 1..Len(analyses) :
                                                 analyses[i].status = "failed")
                     THEN 1 ELSE 0)

\* C6: a batch in which no run has a hard breach ends with exit code 0 and a report
\* with one section per verdict, however many runs are unmatched.
C6_UnmatchedNeverGates ==
    (pc = "done" /\ \A i \in 1..Len(analyses) : GetList(analyses[i], "failures") = <<>>) =>
        /\ exit_code = 0
        /\ "sections" \in DOMAIN report
        /\ Len(report.sections) = Len(analyses)

\* C7: the selected entry is the first one of the resolved platform whose lower-cased
\* key is a substring of the lower-cased test name (none when there is no such entry).
C7_FirstCaseInsensitiveMatch ==
    (/\ IsAnalyzeCall
     /\ call.out.os \in DOMAIN call.table
     /\ "test_name" \in DOMAIN call.results) =>
        LET entries == call.table[call.out.os]
            name    == Lower(call.results["test_name"])
            Hit(i)  == Contains(Lower(entries[i].key), name)
        IN  IF \E i \in 1..Len(entries) : Hit(i)
            THEN /\ call.out.baseline_index \in 1..Len(entries)
                 /\ Hit(call.out.baseline_index)
                 /\ \A j \in 1..(call.out.baseline_index - 1) : ~Hit(j)
            ELSE call.out.baseline_index = 0

\* C8 as stated: a platform outside {linux, macos, windows} is resolved against the
\* linux entries with a printed warning, a platform inside it against its own entries.
C8_KnownSetFallback ==
    IsAnalyzeCall =>
        IF call.os_name \notin {"linux", "macos", "windows"}
        THEN call.out.os = "linux" /\ call.out.printed # <<>>
        ELSE call.out.os = call.os_name

\* C8 as amended: a platform that is no key of the table is resolved against the linux
\* entries with a printed warning (and the call raises KeyError linux when the table has
\* no linux entries either); a platform that is a key of the table is resolved against
\* its own entries and nothing is printed.  The selected entry is one of the resolved
\* platform whose key occurs in the test name.
C8_TableKeyFallback ==
    IsAnalyzeCall =>
        /\ IF call.os_name \in DOMAIN call.table
           THEN call.out.os = call.os_name /\ call.out.printed = <<>>
           ELSE /\ call.out.os = "linux"
                /\ call.out.printed = <<FallbackWarning(call.os_name)>>
                /\ "linux" \notin DOMAIN call.table =>
                      call.out.raised /\ call.out.error = "linux"
        /\ call.out.baseline_index > 0 =>
              /\ call.out.os \in DOMAIN call.table
              /\ call.out.baseline_index <= Len(call.table[call.out.os])
              /\ Contains(call.table[call.out.os][call.out.baseline_index].key,
                          Lower(call.results["test_name"]))

C8_Witness ==
    /\ HasVerdict
    /\ call.os_name \notin DOMAIN call.table
    /\ call.out.os = "linux"
    /\ call.out.printed = <<FallbackWarning(call.os_name)>>

\* the run of scenario D: test ipc_latency_stress_test_linux, a table without linux
\* entries that holds the key latency_stress, a platform the table has no entries for
ScenarioD ==
    /\ IsAnalyzeCall
    /\ "test_name" \in DOMAIN call.results
    /\ call.results["test_name"] = NameLatencyStress
    /\ "linux" \notin DOMAIN call.table
    /\ call.os_name \notin DOMAIN call.table
    /\ \E p \in DOMAIN call.table : \E i \in 1..Len(call.table[p]) :
          call.table[p][i].key = KeyLatencyStress

\* C9: in scenario D the call does not raise and resolves the run to the
\* latency_stress entry.
C9_ScenarioDResolves ==
    ScenarioD =>
        /\ ~call.out.raised
        /\ call.out.baseline_index > 0
        /\ call.out.os \in DOMAIN call.table
        /\ call.table[call.out.os][call.out.baseline_index].key = KeyLatencyStress

\* the failures the three hard checks yield, each bound taken alone
ExpectedFailures(results, entry) ==
    LET tolerance == IF "tolerance_percent" \in DOMAIN entry
                     THEN entry["tolerance_percent"] ELSE 10
        One(bound, field, comparison, label) ==
            IF bound \in DOMAIN entry
               /\ ~compare_metric(results[field], entry[bound], tolerance, comparison)
            THEN <<Breach(label, results[field], entry[bound])>>
            ELSE <<>>
    IN  One("min_throughput_msg_sec", "messages_per_second", "min", "Throughput")
        \o One("max_memory_mb", "peak_mb", "max", "Memory")
        \o One("max_latency_p99_us", "p99_us", "max", "P99 latency")

\* C10: the failures of a verdict are, in the order throughput, memory, latency, one
\* entry for each bound that is present and whose comparison returns false, and
\* nothing for an absent bound.
C10_FailuresFollowBounds ==
    HasVerdict => call.out.value.failures = ExpectedFailures(call.results, MatchedEntry)

C10_Witness == HasVerdict /\ Len(call.out.value.failures) = 3

\* a verdict of a matched run: it carries the two lists
IsMatchedVerdict(a) == "failures" \in DOMAIN a

\* C11: a breach of the violation-rate bound is never among the failures of a verdict
\* and is the only thing its warnings hold; a verdict with warnings and no failures
\* has status warning; and a finished batch of matched runs none of which has a
\* failure exits with code 0, enforcement on or off.
C11_ViolationOnlyWarns ==
    /\ \A i \in 1..Len(analyses) :
          IsMatchedVerdict(analyses[i]) =>
              /\ \A j \in 1..Len(analyses[i].failures) :
                    analyses[i].failures[j].label # "Latency violations"
              /\ \A j \in 1..Len(analyses[i].warnings) :
                    analyses[i].warnings[j].label = "Latency violations"
              /\ (analyses[i].failures = <<>> /\ analyses[i].warnings # <<>>) =>
                    analyses[i].status = "warning"
    /\ (/\ pc = "done"
        /\ \A i \in 1..Len(analyses) :
              IsMatchedVerdict(analyses[i]) /\ analyses[i].failures = <<>>) =>
           exit_code = 0

C11_Witness ==
    /\ pc = "done"
    /\ fail_on_regression
    /\ exit_code = 0
    /\ \E i \in 1..Len(analyses) :
          /\ IsMatchedVerdict(analyses[i])
          /\ analyses[i].status = "warning"
          /\ analyses[i].failures = <<>>
          /\ Len(analyses[i].warnings) = 1

\* the run of scenario C: entry {max_memory_mb: 50, max_violations_percent: 1,
\* tolerance_percent: 5}, measured peak memory 53 and violation rate 2
ScenarioC ==
    /\ HasVerdict
    /\ MatchedEntry = EntryMemory
    /\ call.results["peak_mb"] = 53
    /\ call.results["violation_percentage"] = 2

\* C12: the status of a verdict of a matched run is failed exactly when failures is
\* non-empty, warning exactly when failures is empty and warnings is not, passed
\* exactly when both are empty; scenario C, with one failure and one warning, is failed.
C12_StatusPrecedence ==
    HasVerdict =>
        LET v == call.out.value
        IN  /\ (v.status = "failed") <=> (v.failures # <<>>)
            /\ (v.status = "warning") <=> (v.failures = <<>> /\ v.warnings # <<>>)
            /\ (v.status = "passed") <=> (v.failures = <<>> /\ v.warnings = <<>>)
            /\ ScenarioC =>
                  /\ v.status = "failed"
                  /\ Len(v.failures) = 1 /\ v.failures[1].label = "Memory"
                  /\ Len(v.warnings) = 1

C12_Witness == ScenarioC /\ call.out.value.status = "failed"

IsAggregateCall == call.fn = "aggregate" /\ call.done

\* the banner and the counts of a report (the banner alone when none was generated)
Summary(r) ==
    IF "passed" \in DOMAIN r THEN <<r.banner, r.passed, r.warnings, r.failed>>
    ELSE <<r.banner>>

\* C13: a batch of verdicts and any permutation of it give the same passed, warning
\* and failed counts, the same overall outcome and the same exit code.
C13_OrderIndependent ==
    IsAggregateCall =>
        /\ Summary(call.out.report) = Summary(call.out_permuted.report)
        /\ call.out.raised = call.out_permuted.raised
        /\ call.out.exit_code = call.out_permuted.exit_code

C13_Witness ==
    /\ IsAggregateCall
    /\ call.list # call.permuted
    /\ call.list[1].status = "passed"
    /\ ~call.out.raised
    /\ call.out.report.banner = "FAILED"
    /\ call.out.report.passed = 1
    /\ call.out.exit_code = 1

\* the measured field each bound of a baseline entry is compared with
BoundField ==
    [min_throughput_msg_sec |-> "messages_per_second", max_memory_mb |-> "peak_mb",
     max_latency_p99_us |-> "p99_us", max_violations_percent |-> "violation_percentage"]

\* the fields the bounds of an entry need and a record lacks
MissingFields(results, entry) ==
    {BoundField[b] : b \in {k \in DOMAIN BoundField : k \in DOMAIN entry}} \ DOMAIN results

\* the platform whose entries a result file is resolved against
ResolvedOS(f) ==
    Bind(DetectOS(f.path), LAMBDA os : IF os \in DOMAIN baselines THEN os ELSE "linux")

\* entries holds an entry whose key is the first to occur in name and whose bounds need
\* a field that results lacks
FirstMatchLacksField(results, entries, name) ==
    \E i \in 1..Len(entries) :
        /\ entries[i].key # <<>>
        /\ Contains(entries[i].key, name)
        /\ \A j \in 1..(i - 1) : ~Contains(entries[j].key, name)
        /\ MissingFields(results, entries[i].entry) # {}

\* the record of result file f lacks a field that a bound of its matched entry needs
LacksNeededField(f) ==
    /\ "test_name" \in DOMAIN f.results
    /\ Bind(ResolvedOS(f),
            LAMBDA os :
                /\ os \in DOMAIN baselines
                /\ Bind(Lower(f.results["test_name"]),
                        LAMBDA name : FirstMatchLacksField(f.results, baselines[os], name)))

\* C14: processing a result file whose record lacks a field that a bound of its matched
\* entry needs adds no verdict, and the last line printed is an error line that names
\* the file and a field the record lacks.
C14_MissingFieldStops ==
    [][\A f \in pending :
          (f \notin pending' /\ LacksNeededField(f)) =>
              /\ analyses' = analyses
              /\ stdout' # <<>>
              /\ stdout'[Len(stdout')].line = "Error processing"
              /\ stdout'[Len(stdout')].path = f.path
              /\ stdout'[Len(stdout')].error \notin DOMAIN f.results
              /\ stdout'[Len(stdout')].error \in {BoundField[b] : b \in DOMAIN BoundField}]_vars

C14_Witness ==
    /\ baselines = TableUpper
    /\ analyses = <<>>
    /\ \E i \in 1..Len(stdout) :
          /\ stdout[i].line = "Error processing"
          /\ stdout[i].path = PathPlain
          /\ stdout[i].error = "peak_mb"

\* a run of the batch was abandoned with an error
SomeRunAbandoned == \E i \in 1..Len(stdout) : stdout[i].line = "Error processing"

\* C15: a finished batch one run of which was abandoned with an error has a report
\* with one section for every run that was evaluated, counts the abandoned run under
\* no status, and exits with 1 exactly when enforcement is on and an evaluated run has
\* status failed.
C15_PartialBatchFailure ==
    (pc = "done" /\ SomeRunAbandoned) =>
        /\ "sections" \in DOMAIN report
        /\ Len(report.sections) = Len(analyses)
        /\ report.passed + report.warnings + report.failed = Len(analyses)
        /\ exit_code = (IF fail_on_regression /\ (\E i \in 1..Len(analyses) :
                                                    analyses[i].status = "failed")
                        THEN 1 ELSE 0)

\* C16: a call whose baseline table has a platform key outside linux, macos, windows
\* raises when the table is loaded and returns no verdict.
C16_MalformedTableRejected ==
    (IsAnalyzeCall /\ \E p \in DOMAIN call.table : p \notin {"linux", "macos", "windows"}) =>
        call.out.raised /\ call.out.value = NoValue

\* the key of an entry occurs in the test name and the entry carries none of the four
\* bounds
MatchesDegenerateEntry ==
    /\ IsAnalyzeCall
    /\ ~call.out.raised
    /\ call.out.baseline_index > 0
    /\ call.table[call.out.os][call.out.baseline_index].key # <<>>
    /\ DOMAIN MatchedEntry \cap DOMAIN BoundField = {}

\* C17: a run matched to an entry without bounds gets the verdict of a run with no
\* matching key (the no-baseline message, no status passed).
C17_DegenerateEntryIsUnmatched ==
    MatchesDegenerateEntry =>
        /\ IsUnmatched(call.out.value)
        /\ call.out.value.status # "passed"

\* C18: with tolerance_percent 0 compare_metric is the exact comparison, actual >=
\* bound for direction min and actual <= bound for direction max.
C18_ZeroToleranceIsExact ==
    (IsCompareCall /\ call.tolerance_percent = 0) =>
        call.result = (IF call.comparison = "min"
                       THEN call.actual >= call.baseline
                       ELSE call.actual <= call.baseline)

C18_Witness ==
    /\ IsCompareCall
    /\ call.tolerance_percent = 0
    /\ call.baseline = 50
    /\ call.actual = call.baseline
    /\ call.result

\* C19: with bound 0 and direction max compare_metric is true exactly when actual <= 0,
\* whatever the tolerance percentage.
C19_ZeroBoundIsExact ==
    (IsCompareCall /\ call.baseline = 0 /\ call.comparison = "max") =>
        call.result = (call.actual <= 0)

C19_Witness ==
    /\ IsCompareCall
    /\ call.baseline = 0
    /\ call.comparison = "max"
    /\ call.tolerance_percent = 58
    /\ call.actual = 1
    /\ ~call.result

\* the label of the breach each bound yields
BoundLabel ==
    [min_throughput_msg_sec |-> "Throughput", max_memory_mb |-> "Memory",
     max_latency_p99_us |-> "P99 latency", max_violations_percent |-> "Latency violations"]

\* C20: each of the four checks of a matched entry is made with the entry's
\* tolerance_percent, or with 10 when the entry has none: a breach is listed for a
\* bound exactly when the bound is present and compare_metric with that tolerance
\* returns false.
C20_SingleTolerance ==
    HasVerdict =>
        LET e         == MatchedEntry
            t         == IF "tolerance_percent" \in DOMAIN e THEN e["tolerance_percent"] ELSE 10
            listed    == call.out.value.failures \o call.out.value.warnings
            Listed(b) == \E i \in 1..Len(listed) : listed[i].label = BoundLabel[b]
            Within(b) == compare_metric(call.results[BoundField[b]], e[b], t,
                                        IF b = "min_throughput_msg_sec" THEN "min" ELSE "max")
        IN  \A b \in DOMAIN BoundField : Listed(b) <=> (b \in DOMAIN e /\ ~Within(b))

C20_Witness ==
    /\ HasVerdict
    /\ "tolerance_percent" \notin DOMAIN MatchedEntry
    /\ MatchedEntry["max_latency_p99_us"] = 10
    /\ call.results["p99_us"] = 11
    /\ call.out.value.failures = <<>>

\* the indices of the lines of kind k among lines lo..hi of sequence L
LinesOfKind(L, lo, hi, k) == {i \in lo..hi : L[i].kind = k}

\* the index of the n-th section heading of L
HeadingAt(L, n) ==
    CHOOSE i \in 1..Len(L) :
        L[i].kind = "section" /\ Cardinality(LinesOfKind(L, 1, i, "section")) = n

\* the items of kind k among lines lo..hi of L, in their order
ItemsOfKind(L, lo, hi, k) ==
    LET picked == SelectSeq(SubSeq(L, lo, hi), LAMBDA l : l.kind = k)
    IN  [j \in 1..Len(picked) |-> picked[j].item]

\* C21: a rendered report holds the banner, then the three counts, then one section
\* for each verdict in the order of the verdicts; each section holds the four rows of
\* the metrics table, then the failures of its verdict, then its warnings, both in
\* their recorded order.
C21_ReportOrder ==
    "lines" \in DOMAIN report =>
        LET L      == report.lines
            n      == Len(analyses)
            lo(k)  == HeadingAt(L, k)
            hi(k)  == IF k = n THEN Len(L) ELSE HeadingAt(L, k + 1) - 1
        IN  /\ L[2] = [kind |-> "banner", text |-> report.banner]
            /\ \A i \in 3..5 : L[i].kind = "count"
            /\ <<L[3].status, L[4].status, L[5].status>> = <<"passed", "warning", "failed">>
            /\ <<L[3].n, L[4].n, L[5].n>> = <<report.passed, report.warnings, report.failed>>
            /\ Cardinality(LinesOfKind(L, 1, Len(L), "section")) = n
            /\ LinesOfKind(L, 1, 5, "section") = {}
            /\ \A k \in 1..n :
                  /\ L[lo(k)].test_name = analyses[k].test_name
                  /\ L[lo(k)].os = analyses[k].os
                  /\ Cardinality(LinesOfKind(L, lo(k), hi(k), "metric")) = 4
                  /\ ItemsOfKind(L, lo(k), hi(k), "failure") = analyses[k].failures
                  /\ ItemsOfKind(L, lo(k), hi(k), "warning") = analyses[k].warnings
                  /\ \A i \in LinesOfKind(L, lo(k), hi(k), "metric") :
                        \A j \in LinesOfKind(L, lo(k), hi(k), "failure")
                                 \cup LinesOfKind(L, lo(k), hi(k), "warning") : i < j
                  /\ \A i \in LinesOfKind(L, lo(k), hi(k), "failure") :
                        \A j \in LinesOfKind(L, lo(k), hi(k), "warning") : i < j

C21_Witness ==
    /\ "lines" \in DOMAIN report
    /\ Len(analyses) = 2
    /\ analyses[1].test_name # analyses[2].test_name
    /\ \E k \in 1..2 : analyses[k].failures # <<>> /\ analyses[k].warnings # <<>>

\* the marker a section shows for a status
IconOf(status) ==
    IF status = "passed" THEN "check" ELSE IF status = "warning" THEN "warning" ELSE "cross"

\* C22: the step that generates the report leaves the verdicts unchanged; in the
\* report it yields the marker of each section is that of the status of its verdict,
\* and the banner is FAILED exactly when a verdict has status failed, which is when
\* the exit code under enforcement is 1.
C22_RenderingIsProjection ==
    [][(pc = "loop" /\ pc' # "loop") =>
          /\ analyses' = analyses
          /\ "sections" \in DOMAIN report' =>
                /\ Len(report'.sections) = Len(analyses)
                /\ \A k \in 1..Len(analyses) :
                      report'.sections[k].icon = IconOf(analyses[k].status)
                /\ (report'.banner = "FAILED") <=>
                      (\E k \in 1..Len(analyses) : analyses[k].status = "failed")
                /\ (report'.banner = "FAILED") <=> (ExitCode(analyses, TRUE) = 1)]_vars

C22_Witness ==
    /\ "sections" \in DOMAIN report
    /\ report.banner = "FAILED"
    /\ Len(analyses) = 2
    /\ report.sections[1].icon = "check"
    /\ report.sections[2].icon = "cross"
    /\ analyses[2].warnings # <<>>

\* C23: the verdict of a matched run carries a metrics snapshot whose throughput,
\* memory, p99 latency and error rate are those of the record, whatever bounds the
\* entry has and whatever the status.
C23_MetricsSnapshot ==
    HasVerdict =>
        /\ DOMAIN call.out.value.metrics =
              {"throughput", "memory_mb", "p99_latency_us", "error_rate"}
        /\ call.out.value.metrics.throughput = call.results["messages_per_second"]
        /\ call.out.value.metrics.memory_mb = call.results["peak_mb"]
        /\ call.out.value.metrics.p99_latency_us = call.results["p99_us"]
        /\ call.out.value.metrics.error_rate = call.results["error_rate"]

C23_Witness ==
    /\ HasVerdict
    /\ call.out.value.status = "failed"
    /\ "max_memory_mb" \notin DOMAIN MatchedEntry
    /\ call.out.value.metrics.memory_mb = 90
    /\ call.out.value.metrics.error_rate = 3

C25_ReachesExitStep ==
    /\ <>(pc = "exit" /\ pending = {})
    /\ [](pc = "done" => exit_code \in {0, 1})

\* C26: every verdict main collects carries the test_name, os and metrics keys, and a
\* finished run has a report.
C26_RenderingNeverRaises ==
    /\ \A i \in 1..Len(analyses) : SectionKeys \subseteq DOMAIN analyses[i]
    /\ pc = "done" => "sections" \in DOMAIN report

\* the last line main printed says that a run was abandoned with an error
LastLineIsError(out) == out # <<>> /\ out[Len(out)].line = "Error processing"

\* C27: a step of the loop that abandons a run with an error leaves the list of
\* verdicts unchanged; the report counts and shows the collected verdicts only, and
\* the process ends with code 1 only for a collected verdict (a failed one under
\* enforcement, or one the report cannot render).
C27_AbandonedRunLeavesNoTrace ==
    /\ [][(pc = "loop" /\ pending' # pending /\ LastLineIsError(stdout')) =>
             analyses' = analyses]_vars
    /\ []("sections" \in DOMAIN report =>
             /\ Len(report.sections) = Len(analyses)
             /\ report.passed + report.warnings + report.failed = Len(analyses))
    /\ []((pc = "done" /\ exit_code = 1) =>
             \/ fail_on_regression /\ \E i \in 1..Len(analyses) : analyses[i].status = "failed"
             \/ \E i \in 1..Len(analyses) : ~(SectionKeys \subseteq DOMAIN analyses[i]))

\* the run of out/macos_2.json: throughput 10 breaches the bound 50 at 58 percent, then
\* the memory field is missing
C27_Witness ==
    /\ baselines = TableMain
    /\ fail_on_regression
    /\ pc = "done"
    /\ exit_code = 0
    /\ analyses = <<>>
    /\ ~compare_metric(10, EntryAll["min_throughput_msg_sec"], EntryAll["tolerance_percent"], "min")
    /\ \E i \in 1..Len(stdout) :
          /\ stdout[i].line = "Error processing"
          /\ stdout[i].path = PathMacosPartial
          /\ stdout[i].error = "peak_mb"

\* C28: when compare_metric accepts an actual value at a tolerance it accepts it at
\* every larger tolerance, for direction min and for direction max.
C28_ToleranceMonotone ==
    (IsCompareCall /\ call.result) =>
        \A t \in CmpTolerances :
            t >= call.tolerance_percent =>
                compare_metric(call.actual, call.baseline, t, call.comparison)

\* accepted at 5 percent though rejected at 0 percent, and accepted at 10 and 58 percent
C28_Witness ==
    /\ IsCompareCall
    /\ call.result
    /\ call.tolerance_percent = 5
    /\ call.baseline = 50
    /\ call.actual = 48
    /\ call.comparison = "min"
    /\ ~compare_metric(call.actual, call.baseline, 0, call.comparison)

IsDetectCall == call.fn = "detect_os" /\ call.done

\* the lower-cased path of the call holds the word
PathHas(word) == Contains(word, Lower(call.path))

\* C29: the platform of a path is linux if its lower-cased form contains linux;
\* otherwise macos if it contains macos or darwin; otherwise windows if it contains
\* windows or win; otherwise linux.  A path with darwin is never windows, and the
\* platform is always one of the three.
C29_PlatformPrecedence ==
    IsDetectCall =>
        /\ call.os_name \in {"linux", "macos", "windows"}
        /\ PathHas(StrLinux) => call.os_name = "linux"
        /\ (~PathHas(StrLinux) /\ (PathHas(StrMacos) \/ PathHas(StrDarwin))) =>
              call.os_name = "macos"
        /\ (~PathHas(StrLinux) /\ ~PathHas(StrMacos) /\ ~PathHas(StrDarwin)
            /\ (PathHas(StrWindows) \/ PathHas(StrWin))) => call.os_name = "windows"
        /\ (~PathHas(StrLinux) /\ ~PathHas(StrMacos) /\ ~PathHas(StrDarwin)
            /\ ~PathHas(StrWindows) /\ ~PathHas(StrWin)) => call.os_name = "linux"
        /\ PathHas(StrDarwin) => call.os_name # "windows"

C29_Witness ==
    /\ IsDetectCall
    /\ PathHas(StrDarwin)
    /\ PathHas(StrWin)
    /\ PathHas(StrWindows)
    /\ ~PathHas(StrLinux)
    /\ call.os_name = "macos"

\* the keys of the three latency percentiles
PercentileKeys == {"latency_p50_us", "latency_p99_us", "latency_p999_us"}

\* the matches of the patterns on a line whose handler stores a value: the key and the
\* value it stores
StoringHits(line) ==
    {[key |-> Search(PATTERNS[k], line).key,
      value |-> ParseFloat(Search(PATTERNS[k], line).text).value * PATTERNS[k].scale,
      percentile |-> PATTERNS[k].key \in PercentileKeys] :
        k \in {j \in 1..Len(PATTERNS) :
                  /\ Search(PATTERNS[j], line).found
                  /\ j # 3
                  /\ ParseFloat(Search(PATTERNS[j], line).text).ok}}

\* C30: a step of parse_metrics over one line changes the accumulator by these rules
\* only: a match of a percentile pattern stores its value unless its key is already
\* present; a match of any other pattern stores its value, present or not; a key no
\* match of the line stores (the line matches nothing, or float() raises) keeps its
\* value or its absence.
C30_OverwriteRules ==
    [][(call.fn = "parse_metrics" /\ call'.i = call.i + 1) =>
          LET hits == StoringHits(call.stream[call.i + 1])
              old  == call.acc
              new  == call'.acc
          IN  /\ DOMAIN new = DOMAIN old \cup {h.key : h \in hits}
              /\ \A key \in DOMAIN new :
                    IF \E h \in hits : h.key = key
                    THEN \A h \in hits :
                            h.key = key =>
                                new[key] = (IF h.percentile /\ key \in DOMAIN old
                                            THEN old[key] ELSE h.value)
                    ELSE new[key] = old[key]]_vars

\* "p99: 5 us", "P99: 12us", "Peak memory: 12 MB", "Peak memory: 5MB" in some order
\* with the two p99 lines and the two memory lines each in that order
C30_Witness ==
    /\ call.fn = "parse_metrics"
    /\ call.i = Len(call.stream)
    /\ call.i = 3
    /\ call.stream[1][2].v = <<"5">> /\ call.stream[1][1].v = "p99:"
    /\ call.stream[2][1].v = "P99:"
    /\ call.stream[3][1].v = "Peak memory:"
    /\ call.acc["latency_p99_us"] = 50

====
